---- MODULE Spec2Model ----
(***************************************************************************)
(* Model of JavaUMLAnalyser (src/main.py): the declaration catalog         *)
(* (JavaElement.elements, JavaPackage.packages), the two passes of         *)
(* JavaProjectParser.parse, JavaProjectParser.limit_relationships and      *)
(* PlantUMLGenerator.generate.                                              *)
(*                                                                         *)
(* Python strings are sequences of one-character strings, so that          *)
(* formatting (f-strings) and str.endswith are computed, not assumed.      *)
(* Python dicts are kept in insertion order: JavaPackage.packages is a     *)
(* sequence of package records, JavaElement.elements a function on fqns.   *)
(* An exception that no handler catches ends the operation that raised it; *)
(* its name is kept in the operation's outcome.                            *)
(***************************************************************************)
EXTENDS Integers, Sequences, FiniteSets, TLC

\* Bounds of the model.
MaxFiles == 2
MaxFacts == 2
MaxPerMate == 2
MaxMembers == 2

None == <<"None">>

\* ---------------------------------------------------------------- strings
Dot == <<".">>
DefaultPackage == <<"d", "e", "f", "a", "u", "l", "t">>
PackageNames == {<<"p">>}
ElementNames == {<<"A">>, <<"B", "A">>}

\* str.endswith
EndsWith(s, suffix) ==
    /\ Len(suffix) <= Len(s)
    /\ SubSeq(s, Len(s) - Len(suffix) + 1, Len(s)) = suffix

\* f"{package.package_name}.{name}"
Fqn(package_name, name) == package_name \o Dot \o name

\* ------------------------------------------------------------ source files
\* A source file as the parser sees it.  status: "ok" parses in both passes,
\* "malformed" raises JavaSyntaxError, "missing" raises FileNotFoundError,
\* "late" raises FileNotFoundError in the discovery pass and parses in the
\* extraction pass.  A parseable file holds one type declaration with an
\* empty body; package = None is a file without a package declaration.
SuperNames == {None, <<"A">>}

Declarations ==
    [kind : {"class"}, name : ElementNames, extends : SuperNames]
        \cup [kind : {"interface", "enum"}, name : ElementNames, extends : {None}]

NoDeclaration == [kind |-> "none", name |-> None, extends |-> None]

SourceFiles ==
    [status : {"ok", "late"}, package : PackageNames \cup {None}, decl : Declarations]
        \cup [status : {"malformed", "missing"}, package : {None}, decl : {NoDeclaration}]

VARIABLES
    files,      \* the .java files os.walk lists, in walk order
    pc,         \* position of JavaProjectParser.parse
    idx,        \* index of the file the current pass of parse is at
    objs,       \* every JavaElement object created, by creation order
    elements,   \* JavaElement.elements: fqn -> object
    packages,   \* JavaPackage.packages, in insertion order
    log,        \* logging.error records of parse
    exc,        \* the exception that ended parse, "none" while none did
    call,       \* last call of find / generate made after parse, with its outcome
    lim,        \* limit_relationships: its arguments and outcome
    cfg,        \* ConfigLoader: the configuration file, self.config, the getters' outcomes
    dia,        \* PlantUMLDiagram.generate_diagram: the object, the disk, the outcome
    ext         \* the extractors applied to one class node and one list

vars == <<files, pc, idx, objs, elements, packages, log, exc, call, lim, cfg, dia, ext>>

NoCall == [op |-> "none"]
NoLimit == [phase |-> "none"]
NoConfig == [phase |-> "none"]
NoDiagram == [phase |-> "none"]
NoExtract == [phase |-> "none"]

\* ------------------------------------------------------------------ catalog
\* JavaPackage.find: index of the package record, 0 for None
PackageIndex(pks, package_name) ==
    IF \E i \in 1..Len(pks) : pks[i].package_name = package_name
    THEN CHOOSE i \in 1..Len(pks) : pks[i].package_name = package_name
    ELSE 0

\* JavaPackage.__init__
JavaPackage(package_name) ==
    [package_name |-> package_name, classes |-> <<>>, interfaces |-> <<>>, enums |-> <<>>]

\* JavaProjectParser._extract_package
ExtractPackage(file) ==
    IF file.package = None THEN DefaultPackage ELSE file.package

\* dict assignment d[k] = v
DictSet(d, k, v) == [x \in DOMAIN d \cup {k} |-> IF x = k THEN v ELSE d[x]]

\* JavaElement.__init__ (with the subclass's fields): the new object
JavaElementObject(kind, name, package_name, decl) ==
    [kind |-> kind, name |-> name, package |-> package_name,
     fqn |-> Fqn(package_name, name), relations |-> <<>>,
     extends |-> decl.extends]

\* JavaElement.elements[self.fqn] = self
RegisterElement(elems, fqn, oid) == DictSet(elems, fqn, oid)

\* JavaPackage.add_class / add_interface / add_enum
AddToPackage(p, kind, oid) ==
    CASE kind = "class" -> [p EXCEPT !.classes = Append(@, oid)]
      [] kind = "interface" -> [p EXCEPT !.interfaces = Append(@, oid)]
      [] kind = "enum" -> [p EXCEPT !.enums = Append(@, oid)]

\* an except clause that names JavaSyntaxError alone
CaughtSyntaxErrorOnly == {"JavaSyntaxError"}

\* the exceptions the except clause of both passes catches
CaughtByParser == {"JavaSyntaxError", "FileNotFoundError"}

\* a reader for which a file that appears late is there from the start
ReadErrorNeverLate(file, pass) ==
    CASE file.status = "missing" -> "FileNotFoundError"
      [] file.status = "malformed" -> "JavaSyntaxError"
      [] OTHER -> "ok"

\* open(file_path) and javalang.parse.parse(file.read()) in the given pass:
\* the exception raised, or None
ReadError(file, pass) ==
    CASE file.status = "missing" -> "FileNotFoundError"
      [] file.status = "late" /\ pass = "discover" -> "FileNotFoundError"
      [] file.status = "malformed" -> "JavaSyntaxError"
      [] OTHER -> "ok"

\* a parse with a single loop, which extracts each file right after
\* discovering it
AfterFileInterleaved(pass, i) ==
    IF pass = "discover" THEN [pc |-> "extract", idx |-> i]
    ELSE IF i < Len(files) THEN [pc |-> "discover", idx |-> i + 1]
    ELSE [pc |-> "parsed", idx |-> 1]

\* position of parse after file i of a pass
AfterFile(pass, i) ==
    IF i < Len(files) THEN [pc |-> pass, idx |-> i + 1]
    ELSE IF pass = "discover" THEN [pc |-> "extract", idx |-> 1]
    ELSE [pc |-> "parsed", idx |-> 1]

Init ==
    /\ files \in UNION {[1..n -> SourceFiles] : n \in 1..MaxFiles}
    /\ pc = "discover"
    /\ idx = 1
    /\ objs = <<>>
    /\ elements = <<>>
    /\ packages = <<>>
    /\ log = <<>>
    /\ exc = "none"
    /\ call = NoCall
    /\ lim = NoLimit
    /\ cfg = NoConfig
    /\ dia = NoDiagram
    /\ ext = NoExtract

\* JavaProjectParser._discover_java_elements on files[idx], as the first loop
\* of parse calls it
DiscoverJavaElements ==
    /\ pc = "discover"
    /\ LET file == files[idx]
           err == ReadError(file, "discover")
           next == AfterFile("discover", idx)
       IN  /\ IF err # "ok"
              THEN IF err \in CaughtByParser
                   THEN /\ log' = Append(log, [pass |-> "discover", file |-> idx, error |-> err])
                        /\ pc' = next.pc /\ idx' = next.idx
                        /\ UNCHANGED <<objs, elements, packages, exc>>
                   ELSE /\ pc' = "crashed" /\ exc' = err
                        /\ UNCHANGED <<idx, log, objs, elements, packages>>
              ELSE LET package_name == ExtractPackage(file)
                       found == PackageIndex(packages, package_name)
                       pks == IF found = 0 THEN Append(packages, JavaPackage(package_name))
                              ELSE packages
                       pi == PackageIndex(pks, package_name)
                       oid == Len(objs) + 1
                       obj == JavaElementObject(file.decl.kind, file.decl.name,
                                                package_name, file.decl)
                   IN  /\ objs' = Append(objs, obj)
                       /\ elements' = RegisterElement(elements, obj.fqn, oid)
                       /\ packages' = [pks EXCEPT ![pi] = AddToPackage(@, obj.kind, oid)]
                       /\ pc' = next.pc /\ idx' = next.idx
                       /\ UNCHANGED <<log, exc>>
    /\ UNCHANGED <<files, call, lim, cfg, dia, ext>>

\* next((cls for cls in package.classes if cls.name == node.name), None):
\* the first object of the list with that name, 0 for None
FirstByName(oids, name) ==
    IF \E i \in 1..Len(oids) : objs[oids[i]].name = name
    THEN oids[CHOOSE i \in 1..Len(oids) :
                 /\ objs[oids[i]].name = name
                 /\ \A j \in 1..(i - 1) : objs[oids[j]].name # name]
    ELSE 0

\* JavaProjectParser._extract_relationships: the local `relations` is only
\* annotated (line 457), never bound, so evaluating it as the argument of the
\* first extractor call (line 459) raises UnboundLocalError
ExtractRelationships(class_node) ==
    [status |-> "UnboundLocalError", relationships |-> <<>>]

\* an is_valid that looks at the source only
IsValidSourceOnly(relation) ==
    relation.source \in 1..Len(objs)

\* JavaRelation.is_valid: source and target are JavaElement objects
\* (a target that is a type name, a str, is not)
IsValid(relation) ==
    /\ relation.source \in 1..Len(objs)
    /\ relation.target.pytype = "JavaElement"

\* JavaElement.add_relation, a classmethod: its first parameter is bound to
\* the class, which has no attribute `relations` (line 34 sets it on
\* instances), so appending a valid relation raises AttributeError
AddRelation(oid, relation) ==
    IF IsValid(relation) THEN "AttributeError" ELSE "ok"

\* the loop of lines 446-451 over the extracted relationships
RECURSIVE AttachRelations(_, _)
AttachRelations(oid, relationships) ==
    IF relationships = <<>> THEN "ok"
    ELSE LET relation == [source |-> oid,
                          target |-> Head(relationships).target,
                          relation_type |-> Head(relationships).type]
             st == AddRelation(oid, relation)
         IN  IF st # "ok" THEN st ELSE AttachRelations(oid, Tail(relationships))

\* outcome of the try body of _extract_relationships_from_file for a file
\* that parsed: "ok" or the exception raised
ExtractOutcome(file) ==
    IF file.decl.kind # "class" THEN "ok"
    ELSE LET pi == PackageIndex(packages, ExtractPackage(file))
             java_class == IF pi = 0 THEN 0
                           ELSE FirstByName(packages[pi].classes, file.decl.name)
         IN  IF java_class = 0 THEN "ok"
             ELSE LET out == ExtractRelationships(file.decl)
                  IN  IF out.status # "ok" THEN out.status
                      ELSE AttachRelations(java_class, out.relationships)

\* JavaProjectParser._extract_relationships_from_file on files[idx], as the
\* second loop of parse calls it
ExtractRelationshipsFromFile ==
    /\ pc = "extract"
    /\ LET file == files[idx]
           err == ReadError(file, "extract")
           outcome == IF err # "ok" THEN err ELSE ExtractOutcome(file)
           next == AfterFile("extract", idx)
       IN  IF outcome = "ok"
           THEN /\ pc' = next.pc /\ idx' = next.idx
                /\ UNCHANGED <<log, exc>>
           ELSE IF outcome \in CaughtByParser
           THEN /\ log' = Append(log, [pass |-> "extract", file |-> idx, error |-> outcome])
                /\ pc' = next.pc /\ idx' = next.idx
                /\ UNCHANGED exc
           ELSE /\ pc' = "crashed" /\ exc' = outcome
                /\ UNCHANGED <<idx, log>>
    /\ UNCHANGED <<files, objs, elements, packages, call, lim, cfg, dia, ext>>

\* ------------------------------------------------------------ JavaElement.find
\* Python truth value of the `package` argument: None and "" are false
Truthy(s) == s # None /\ s # <<>>

\* the suffix without its dot: find("A") then also matches "p.BA"
FindSuffixNoDot(name) == name

\* f".{name}", the suffix find looks for
FindSuffix(name) == Dot \o name

\* JavaElement.find: the object found, 0 for None
Find(elems, name, package) ==
    IF Truthy(package)
    THEN IF Fqn(package, name) \in DOMAIN elems THEN elems[Fqn(package, name)] ELSE 0
    ELSE LET matches == {fqn \in DOMAIN elems : EndsWith(fqn, FindSuffix(name))}
         IN  IF Cardinality(matches) = 1
             THEN elems[CHOOSE fqn \in matches : TRUE]
             ELSE 0

\* -------------------------------------------------- PlantUMLGenerator.generate
STARTUML == <<"@", "s", "t", "a", "r", "t", "u", "m", "l">>
ENDUML == <<"@", "e", "n", "d", "u", "m", "l">>
PackageLine(package_name) == <<"p", "a", "c", "k", "a", "g", "e", " ">> \o package_name \o <<" ", "{">>
ClassLine(name) == <<" ", "c", "l", "a", "s", "s", " ">> \o name \o <<" ", "{">>
InterfaceLine(name) == <<" ", "i", "n", "t", "e", "r", "f", "a", "c", "e", " ">> \o name \o <<" ", "{">>
EnumLine(name) == <<" ", "e", "n", "u", "m", " ">> \o name \o <<" ", "{">>
EndBlock == <<" ", "}">>
ExtendsLine(super, name) == super \o <<" ", "<", "|", "-", "-", " ">> \o name

\* JavaRelationType.get_uml_symbol: relation_symbols.get(relation_type, "--")
GetUmlSymbol(relation_type) ==
    CASE relation_type = "extends" -> <<"<", "|", "-", "-">>
      [] relation_type = "implements" -> <<"<", "|", ".", ".">>
      [] relation_type = "dependency" -> <<".", ".", ">">>
      [] relation_type = "association" -> <<"-", "-">>
      [] relation_type = "aggregation" -> <<"o", "-", "-">>
      [] relation_type = "composition" -> <<"*", "-", "-">>
      [] relation_type = "bidirectional" -> <<"<", "-", "-", ">">>
      [] relation_type = "reflexive" -> <<"-", "-">>
      [] relation_type = "enum_usage" -> <<".", ".", "|", ">">>
      [] OTHER -> <<"-", "-">>

\* the attributes __init__ sets on an object of each kind
InstanceAttributes(kind) ==
    {"name", "package", "relations", "fqn", "visibility"} \cup
    CASE kind = "class" -> {"attributes", "methods", "extends", "interfaces"}
      [] kind = "interface" -> {"methods"}
      [] kind = "enum" -> {"constants"}

\* the closure add_relation of generate: uml and relations after it
AddRelationLine(g, relation) ==
    IF relation \notin g.relations
    THEN [g EXCEPT !.uml = Append(@, relation), !.relations = @ \cup {relation}]
    ELSE g

\* class blocks of one package (the declarations have empty bodies: the
\* loops over cls.attributes and cls.methods add no line)
RECURSIVE ClassBlocks(_)
ClassBlocks(oids) ==
    IF oids = <<>> THEN <<>>
    ELSE <<ClassLine(objs[Head(oids)].name), EndBlock>> \o ClassBlocks(Tail(oids))

\* enum blocks of one package (no constants)
RECURSIVE EnumBlocks(_)
EnumBlocks(oids) ==
    IF oids = <<>> THEN <<>>
    ELSE <<EnumLine(objs[Head(oids)].name), EndBlock>> \o EnumBlocks(Tail(oids))

\* the first loop of generate, from package i on.  An interface's `methods`
\* is the (attributes, methods) tuple _extract_members returned (line 404),
\* so iface.methods.items() raises AttributeError at the first interface.
RECURSIVE PackageBlocks(_, _, _)
PackageBlocks(pks, i, g) ==
    IF i > Len(pks) THEN g
    ELSE LET p == pks[i]
             upto == g.uml \o <<PackageLine(p.package_name)>> \o ClassBlocks(p.classes)
         IN  IF p.interfaces # <<>>
             THEN [g EXCEPT !.status = "AttributeError",
                            !.uml = upto \o <<InterfaceLine(objs[p.interfaces[1]].name)>>]
             ELSE PackageBlocks(pks, i + 1,
                     [g EXCEPT !.uml = upto \o EnumBlocks(p.enums) \o <<EndBlock>>])

\* the relationship lines of one class (lines 877-892): the extends line,
\* then `cls.implements`, which no JavaClass has
ClassRelationLines(cls, g) ==
    LET g1 == IF cls.extends # None
              THEN AddRelationLine(g, ExtendsLine(cls.extends, cls.name))
              ELSE g
    IN  IF "implements" \in InstanceAttributes(cls.kind)
        THEN g1
        ELSE [g1 EXCEPT !.status = "AttributeError"]

RECURSIVE ClassesRelationLines(_, _)
ClassesRelationLines(oids, g) ==
    IF oids = <<>> \/ g.status # "ok" THEN g
    ELSE ClassesRelationLines(Tail(oids), ClassRelationLines(objs[Head(oids)], g))

\* the second loop of generate, from package i on
RECURSIVE PackageRelationLines(_, _, _)
PackageRelationLines(pks, i, g) ==
    IF i > Len(pks) \/ g.status # "ok" THEN g
    ELSE PackageRelationLines(pks, i + 1, ClassesRelationLines(pks[i].classes, g))

\* PlantUMLGenerator(pks).generate(): status "ok" and the text, as its list
\* of lines (no line holds a newline, so "\n".join is one to one), or the
\* exception raised
Generate(pks) ==
    LET g0 == [status |-> "ok", uml |-> <<STARTUML>>, relations |-> {}]
        g1 == PackageBlocks(pks, 1, g0)
        g2 == IF g1.status = "ok" THEN PackageRelationLines(pks, 1, g1) ELSE g1
    IN  IF g2.status = "ok"
        THEN [status |-> "ok", text |-> g2.uml \o <<ENDUML>>]
        ELSE [status |-> g2.status, text |-> None]

\* a client calls JavaElement.find once parse has ended
FindCall ==
    /\ pc \in {"parsed", "crashed"}
    /\ \E name \in ElementNames, package \in PackageNames \cup {DefaultPackage, None} :
           call' = [op |-> "find", name |-> name, package |-> package,
                    result |-> Find(elements, name, package)]
    /\ UNCHANGED <<files, pc, idx, objs, elements, packages, log, exc, lim, cfg, dia, ext>>

\* a client calls PlantUMLGenerator(JavaPackage.packages).generate() once
\* parse has ended
GenerateCall ==
    /\ pc \in {"parsed", "crashed"}
    /\ LET out == Generate(packages)
       IN  call' = [op |-> "generate", status |-> out.status, text |-> out.text]
    /\ UNCHANGED <<files, pc, idx, objs, elements, packages, log, exc, lim, cfg, dia, ext>>

\* ------------------------------------- JavaProjectParser.limit_relationships
\* JavaRelationType.get_all_relation_types
RelationTypes ==
    {"extends", "implements", "dependency", "association", "aggregation",
     "composition", "bidirectional", "reflexive", "enum_usage"}

\* the default priority_order of limit_relationships
PriorityOrder ==
    <<"extends", "composition", "aggregation", "dependency", "bidirectional",
      "association", "reflexive", "enum_usage">>

\* the default of max_relations_per_mate
DefaultMaxRelationsPerMate == 1

\* targets of the facts given to limit_relationships: JavaElement objects,
\* which have an fqn, and an unresolved type name, a str, which has none
LimitTargets ==
    [pytype : {"JavaElement"}, fqn : {Fqn(<<"p">>, <<"A">>), Fqn(<<"p">>, <<"B", "A">>)}]
        \cup [pytype : {"str"}, fqn : {None}]

LimitFacts == [relation_type : RelationTypes, target : LimitTargets]

\* selected_relationships[relation_type].append(relationship), line 512:
\* selected_relationships is a list (line 493) and relation_type a str, so
\* the subscription raises TypeError before anything is appended
SelectedAppend(st, relation_type, relationship) ==
    [st EXCEPT !.status = "TypeError"]

\* the body of the inner loop, lines 505-513, on one relationship
LimitOne(st, relationship, max_relations_per_mate) ==
    IF relationship.target.pytype # "JavaElement"
    THEN [st EXCEPT !.status = "AttributeError"]
    ELSE LET mate_class == relationship.target.fqn
             count == IF mate_class \in DOMAIN st.mate_relationship_count
                      THEN st.mate_relationship_count
                      ELSE DictSet(st.mate_relationship_count, mate_class, 0)
             st1 == [st EXCEPT !.mate_relationship_count = count]
         IN  IF count[mate_class] < max_relations_per_mate
             THEN LET st2 == SelectedAppend(st1, relationship.relation_type, relationship)
                  IN  IF st2.status # "ok" THEN st2
                      ELSE [st2 EXCEPT !.mate_relationship_count =
                                DictSet(count, mate_class, count[mate_class] + 1)]
             ELSE st1

\* the inner loop over relation_list
RECURSIVE LimitList(_, _, _)
LimitList(st, relation_list, max_relations_per_mate) ==
    IF relation_list = <<>> \/ st.status # "ok" THEN st
    ELSE LimitList(LimitOne(st, Head(relation_list), max_relations_per_mate),
                   Tail(relation_list), max_relations_per_mate)

\* the outer loop over priority_order, from position k on
RECURSIVE LimitTypes(_, _, _, _)
LimitTypes(st, relationships, max_relations_per_mate, k) ==
    IF k > Len(PriorityOrder) \/ st.status # "ok" THEN st
    ELSE LET relation_list ==
                 SelectSeq(relationships, LAMBDA r : r.relation_type = PriorityOrder[k])
         IN  LimitTypes(LimitList(st, relation_list, max_relations_per_mate),
                        relationships, max_relations_per_mate, k + 1)

\* limit_relationships(relationships, max_relations_per_mate): status "ok"
\* and the list returned, or the exception raised
LimitRelationships(relationships, max_relations_per_mate) ==
    LET st == LimitTypes([status |-> "ok", selected_relationships |-> <<>>,
                          mate_relationship_count |-> <<>>],
                         relationships, max_relations_per_mate, 1)
    IN  [status |-> st.status,
         result |-> IF st.status = "ok" THEN st.selected_relationships ELSE None]

\* a caller applies limit_relationships to its arguments
LimitRelationshipsCall ==
    /\ lim.phase = "called"
    /\ LET out == LimitRelationships(lim.relationships, lim.max_relations_per_mate)
       IN  lim' = [lim EXCEPT !.phase = "ended", !.status = out.status,
                              !.result = out.result]
    /\ UNCHANGED <<files, pc, idx, objs, elements, packages, log, exc, call, cfg, dia, ext>>

\* limit_relationships as a function of its arguments: every list of at most
\* MaxFacts facts, every maximum up to MaxPerMate
InitLimit ==
    /\ lim \in [phase : {"called"},
                relationships : UNION {[1..n -> LimitFacts] : n \in 0..MaxFacts},
                max_relations_per_mate : 0..MaxPerMate,
                status : {"running"}, result : {None}]
    /\ files = <<>>
    /\ pc = "idle"
    /\ idx = 1
    /\ objs = <<>>
    /\ elements = <<>>
    /\ packages = <<>>
    /\ log = <<>>
    /\ exc = "none"
    /\ call = NoCall
    /\ cfg = NoConfig
    /\ dia = NoDiagram
    /\ ext = NoExtract

NextLimit == LimitRelationshipsCall

SpecLimit == InitLimit /\ [][NextLimit]_vars

\* --------------------------------------------------------------- ConfigLoader
\* the three keys of the configuration and the defaults of their getters
ConfigKeys == {"java_project_folder", "output_uml_code", "output_uml_diagram"}

DefaultOf(key) ==
    CASE key = "java_project_folder" -> "./"
      [] key = "output_uml_code" -> "project_diagram.puml"
      [] key = "output_uml_diagram" -> "project_diagram.png"

ConfigValues == {"src", "out"}

EmptyDict == [pytype |-> "dict", items |-> <<>>]

\* what json.load can return: a dict over any subset of the keys, or a value
\* that is no dict (a JSON array)
JsonValues ==
    [pytype : {"dict"}, items : UNION {[K -> ConfigValues] : K \in SUBSET ConfigKeys}]
        \cup {[pytype |-> "list", items |-> <<>>]}

\* config.json on disk: absent, not JSON, or a JSON document
ConfigFiles ==
    [state : {"missing", "malformed"}, json : {EmptyDict}]
        \cup [state : {"json"}, json : JsonValues]

\* open(...) and json.load(...) of load_config: the exception raised, "ok" if none
LoadError(file) ==
    CASE file.state = "missing" -> "FileNotFoundError"
      [] file.state = "malformed" -> "JSONDecodeError"
      [] OTHER -> "ok"

\* ConfigLoader.load_config: `except Exception` catches every error of the
\* try body, prints it and returns {}
LoadConfig(file) ==
    IF LoadError(file) = "ok"
    THEN [config |-> file.json, printed |-> FALSE]
    ELSE [config |-> EmptyDict, printed |-> TRUE]

\* self.config.get(key, default): dict.get; any other value has no `get`
ConfigGet(config, key) ==
    IF config.pytype # "dict" THEN [status |-> "AttributeError", value |-> "none"]
    ELSE IF key \in DOMAIN config.items
    THEN [status |-> "ok", value |-> config.items[key]]
    ELSE [status |-> "ok", value |-> DefaultOf(key)]

Uncalled == [status |-> "uncalled", value |-> "none"]

\* ConfigLoader.__init__
ConfigLoaderInit ==
    /\ cfg.phase = "file"
    /\ LET out == LoadConfig(cfg.file)
       IN  cfg' = [cfg EXCEPT !.phase = "loaded", !.config = out.config,
                              !.printed = out.printed]
    /\ UNCHANGED <<files, pc, idx, objs, elements, packages, log, exc, call, lim, dia, ext>>

\* a getter of ConfigLoader, called once
ConfigGetter(key) ==
    /\ cfg.phase = "loaded"
    /\ cfg.got[key] = Uncalled
    /\ cfg' = [cfg EXCEPT !.got[key] = ConfigGet(cfg.config, key)]
    /\ UNCHANGED <<files, pc, idx, objs, elements, packages, log, exc, call, lim, dia, ext>>

\* ConfigLoader.get_project_folder
GetProjectFolder == ConfigGetter("java_project_folder")

\* ConfigLoader.get_output_uml_code
GetOutputUmlCode == ConfigGetter("output_uml_code")

\* ConfigLoader.get_output_uml_diagram
GetOutputUmlDiagram == ConfigGetter("output_uml_diagram")

\* the parser's state while parse is not run
ParserIdle ==
    /\ files = <<>>
    /\ pc = "idle"
    /\ idx = 1
    /\ objs = <<>>
    /\ elements = <<>>
    /\ packages = <<>>
    /\ log = <<>>
    /\ exc = "none"
    /\ call = NoCall

InitConfig ==
    /\ cfg \in [phase : {"file"}, file : ConfigFiles, config : {EmptyDict},
                printed : {FALSE}, got : {[k \in ConfigKeys |-> Uncalled]}]
    /\ ParserIdle
    /\ lim = NoLimit
    /\ dia = NoDiagram
    /\ ext = NoExtract

NextConfig ==
    \/ ConfigLoaderInit
    \/ GetProjectFolder
    \/ GetOutputUmlCode
    \/ GetOutputUmlDiagram

SpecConfig == InitConfig /\ [][NextConfig]_vars

\* ---------------------------------------------- PlantUMLDiagram.generate_diagram
\* file paths, as directory part and base name
TextPath == [dir |-> "", base |-> "project_diagram.puml"]
ImagePaths == {[dir |-> "", base |-> "project_diagram.png"],
               [dir |-> "output", base |-> "diagram.png"]}

\* os.path.dirname
Dirname(path) == path.dir

PlantUMLCodes == {"@startuml A @enduml", "@startuml B @enduml"}

\* what the rendering service, the file system's makedirs and open do when
\* generate_diagram calls them: "ok" or the exception they raise
DiagramEnvironments ==
    [processes : {"ok", "PlantUMLConnectionError", "PlantUMLHTTPError"},
     makedirs : {"ok", "PermissionError"},
     open : {"ok", "PermissionError"}]

\* the bytes the rendering service returns for a diagram text
Rendered(plantuml_code) == <<"png", plantuml_code>>

\* os.makedirs(dirname, exist_ok=True): the empty path raises FileNotFoundError
Makedirs(dirname, env) ==
    IF dirname = "" THEN "FileNotFoundError" ELSE env.makedirs

\* the first exception the try body of generate_diagram raises, "ok" if none
DiagramError(d) ==
    IF d.env.processes # "ok" THEN d.env.processes
    ELSE IF Makedirs(Dirname(d.output_file), d.env) # "ok"
    THEN Makedirs(Dirname(d.output_file), d.env)
    ELSE d.env.open

\* a handler that names the rendering service's exceptions alone
DiagramCaughtServiceOnly == {"PlantUMLConnectionError", "PlantUMLHTTPError"}

\* `except Exception` of generate_diagram: every exception the try body can
\* raise here is a subclass of Exception
DiagramCaught ==
    {"PlantUMLConnectionError", "PlantUMLHTTPError", "FileNotFoundError", "PermissionError"}

\* PlantUMLDiagram.generate_diagram
GenerateDiagram ==
    /\ dia.phase = "constructed"
    /\ LET err == DiagramError(dia)
       IN  dia' = IF err = "ok"
                  THEN [dia EXCEPT !.phase = "ended", !.printed = "saved",
                            !.disk = [@ EXCEPT ![dia.output_file] = Rendered(dia.plantuml_code)]]
                  ELSE IF err \in DiagramCaught
                  THEN [dia EXCEPT !.phase = "ended", !.printed = "error"]
                  ELSE [dia EXCEPT !.phase = "ended", !.raised = err]
    /\ UNCHANGED <<files, pc, idx, objs, elements, packages, log, exc, call, lim, cfg, ext>>

\* PlantUMLDiagram(plantuml_code, output_file) with the diagram text already
\* written to TextPath, as main (lines 982-986) does
InitDiagram ==
    /\ \E code \in PlantUMLCodes, out \in ImagePaths, env \in DiagramEnvironments,
          old \in {<<"absent">>, <<"png", "old">>} :
           dia = [phase |-> "constructed", plantuml_code |-> code, output_file |-> out,
                  env |-> env,
                  disk |-> [path \in ImagePaths \cup {TextPath} |->
                               IF path = TextPath THEN code
                               ELSE IF path = out THEN old ELSE <<"absent">>],
                  printed |-> "nothing", raised |-> "none"]
    /\ ParserIdle
    /\ lim = NoLimit
    /\ cfg = NoConfig
    /\ ext = NoExtract

NextDiagram == GenerateDiagram

SpecDiagram == InitDiagram /\ [][NextDiagram]_vars

\* ------------------------------------------------- class nodes of the parser
\* type names that occur in class bodies: "A" is all uppercase, "Ba" is not
TypeNames == {<<"A">>, <<"B", "a">>}

UpperCase == {"A", "B"}
LowerCase == {"a"}

\* str.isupper: some cased character and no lowercase one
IsUpper(str) ==
    /\ \E i \in DOMAIN str : str[i] \in UpperCase
    /\ \A i \in DOMAIN str : str[i] \notin LowerCase

\* statements of constructor and method bodies.  Assignment: a
\* StatementExpression whose expression is an Assignment with a ClassCreator
\* of `type` as value; ClassCreator: a StatementExpression that is a
\* ClassCreator; MethodInvocation: a StatementExpression that is a method
\* invocation with the qualifier `type`; LocalVariableDeclaration: one
\* declarator initialised by a ClassCreator of `type`
Statements ==
    [kind : {"Assignment", "ClassCreator", "MethodInvocation", "LocalVariableDeclaration"},
     type : {<<"B", "a">>}]
        \cup [kind : {"Assignment"}, type : {<<"A">>}]

NoMember ==
    [type |-> None, arguments |-> <<>>, initializer |-> None,
     return_type |-> None, parameters |-> <<>>, body |-> <<>>]

\* field declarations with one declarator: `T f;`, `T<X> f;`, `T f = new X();`
Fields ==
    {[NoMember EXCEPT !.type = t] : t \in TypeNames}
        \cup {[NoMember EXCEPT !.type = t, !.arguments = <<<<"A">>>>] : t \in TypeNames}
        \cup {[NoMember EXCEPT !.type = t, !.initializer = x] : t \in TypeNames, x \in TypeNames}

Constructors ==
    {[NoMember EXCEPT !.body = <<[kind |-> "Assignment", type |-> t]>>] : t \in TypeNames}

Methods ==
    {[NoMember EXCEPT !.return_type = <<"A">>]}
        \cup {[NoMember EXCEPT !.parameters = <<t>>] : t \in TypeNames}
        \cup {[NoMember EXCEPT !.body = <<st>>] : st \in Statements}

\* the members of class bodies, each with the kind of its node
ClassMembers ==
    {[kind |-> "FieldDeclaration", m |-> f] : f \in Fields}
        \cup {[kind |-> "ConstructorDeclaration", m |-> c] : c \in Constructors}
        \cup {[kind |-> "MethodDeclaration", m |-> me] : me \in Methods}
        \cup {[kind |-> "EnumDeclaration", m |-> [NoMember EXCEPT !.type = <<"A">>]]}

\* ClassDeclaration nodes: name, extends and a body of at most MaxMembers members
ClassNodes ==
    [name : TypeNames, extends : {None, <<"A">>},
     body : UNION {[1..n -> ClassMembers] : n \in 0..MaxMembers}]

\* ---------------------------------------------------------- the extractors
\* An extractor appends type names to the list it is given.  st.list is that
\* list, st.added what this call has appended, st.status "ok" or the
\* exception raised.
Emit(st, value) ==
    [st EXCEPT !.list = Append(@, value), !.added = Append(@, value)]

RECURSIVE EmitAll(_, _)
EmitAll(st, values) ==
    IF values = <<>> THEN st ELSE EmitAll(Emit(st, Head(values)), Tail(values))

Raise(st, exception) == [st EXCEPT !.status = exception]

\* the attributes of a JavaProjectParser object: __init__ sets project_path,
\* the class body FILTER_RELATION_SHIPS; there is no `classes`
ParserAttributes == {"project_path", "FILTER_RELATION_SHIPS"}

\* evaluation of `... in self.classes`
InSelfClasses(st) ==
    IF "classes" \in ParserAttributes THEN st ELSE Raise(st, "AttributeError")

\* the body of the loop named `loop`, applied to one item
RECURSIVE LoopBody(_, _, _, _)

\* a loop `for member in class_node.body` with the loop body named `loop`
RECURSIVE ForMembers(_, _, _, _)
ForMembers(loop, class_node, members, st) ==
    IF members = <<>> \/ st.status # "ok" THEN st
    ELSE ForMembers(loop, class_node, Tail(members),
                    LoopBody(loop, class_node, Head(members), st))

\* a loop over the statements of a body, or over the parameters of a
\* method, with the loop body named `loop`
RECURSIVE ForStatements(_, _, _, _)
ForStatements(loop, class_node, statements, st) ==
    IF statements = <<>> \/ st.status # "ok" THEN st
    ELSE ForStatements(loop, class_node, Tail(statements),
                       LoopBody(loop, class_node, Head(statements), st))

\* _extract_aggregations, loop body
AggregationsStep(class_node, member, st) ==
    IF member.kind # "FieldDeclaration" THEN st
    ELSE LET field_type == member.m.type
             st1 == EmitAll(st, member.m.arguments)
         IN  IF EndsWith(field_type, <<"[", "]">>)
             THEN Emit(st1, SubSeq(field_type, 1, Len(field_type) - 2))
             ELSE st1

\* _extract_aggregations
ExtractAggregations(class_node, st) ==
    ForMembers("AggregationsStep", class_node, class_node.body, st)

\* _extract_compositions, the statement loops of constructors and methods
CompositionsOfConstructor(class_node, statement, st) ==
    IF statement.kind = "Assignment" THEN Emit(st, statement.type) ELSE st

CompositionsOfMethod(class_node, statement, st) ==
    IF statement.kind \in {"Assignment", "ClassCreator"}
    THEN Emit(st, statement.type) ELSE st

\* _extract_compositions, loop body: a field initialised by a ClassCreator
\* gives the field's declared type (line 614), a statement the created type
CompositionsStep(class_node, member, st) ==
    CASE member.kind = "FieldDeclaration" ->
             IF member.m.initializer # None THEN Emit(st, member.m.type) ELSE st
      [] member.kind = "ConstructorDeclaration" ->
             ForStatements("CompositionsOfConstructor", class_node, member.m.body, st)
      [] member.kind = "MethodDeclaration" ->
             ForStatements("CompositionsOfMethod", class_node, member.m.body, st)
      [] OTHER -> st

\* _extract_compositions
ExtractCompositions(class_node, st) ==
    ForMembers("CompositionsStep", class_node, class_node.body, st)

\* _extract_dependencies, statement loop: the qualifier of a method
\* invocation is a str, which has no attribute `type`, so qualifier_type is
\* None; a local variable initialised by a ClassCreator of another type counts
DependenciesOfMethod(class_node, statement, st) ==
    IF statement.kind = "LocalVariableDeclaration" /\ statement.type # class_node.name
    THEN Emit(st, statement.type)
    ELSE st

DependenciesStep(class_node, member, st) ==
    IF member.kind = "MethodDeclaration"
    THEN ForStatements("DependenciesOfMethod", class_node, member.m.body, st)
    ELSE st

\* _extract_dependencies
ExtractDependencies(class_node, st) ==
    ForMembers("DependenciesStep", class_node, class_node.body, st)

\* _extract_inheritance_relationships
ExtractInheritanceRelationships(class_node, st) ==
    IF class_node.extends # None THEN Emit(st, class_node.extends) ELSE st

EnumsStep(class_node, member, st) ==
    CASE member.kind = "FieldDeclaration" ->
             IF IsUpper(member.m.type) THEN Emit(st, member.m.type) ELSE st
      [] member.kind = "EnumDeclaration" -> Emit(st, member.m.type)
      [] OTHER -> st

\* _extract_enums
ExtractEnums(class_node, st) ==
    ForMembers("EnumsStep", class_node, class_node.body, st)

\* _extract_associations, first loop: the first field evaluates
\* `field_type in self.classes` (line 676)
AssociationsOfField(class_node, member, st) ==
    IF member.kind = "FieldDeclaration" THEN InSelfClasses(st) ELSE st

\* second loop (lines 705-714)
AssociationsOfStatement(class_node, statement, st) ==
    IF statement.kind = "Assignment" THEN InSelfClasses(st) ELSE st

AssociationsOfConstructor(class_node, member, st) ==
    IF member.kind = "ConstructorDeclaration"
    THEN ForStatements("AssociationsOfStatement", class_node, member.m.body, st)
    ELSE st

\* third loop (lines 717-724), over the parameters of a method
AssociationsOfParameter(class_node, param_type, st) ==
    IF param_type # class_node.name THEN InSelfClasses(st) ELSE st

AssociationsOfMethod(class_node, member, st) ==
    IF member.kind = "MethodDeclaration"
    THEN ForStatements("AssociationsOfParameter", class_node, member.m.parameters, st)
    ELSE st

\* the lists list(set(values)) can be: every order of the distinct values
Orderings(values) ==
    LET distinct == {values[i] : i \in DOMAIN values}
    IN  {order \in [1..Cardinality(distinct) -> distinct] :
            \A i, j \in DOMAIN order : i # j => order[i] # order[j]}

\* _extract_associations; `order` is the list that list(set(associations))
\* gives at line 701, which replaces the whole content of the list
ExtractAssociations(class_node, st, order) ==
    LET st1 == ForMembers("AssociationsOfField", class_node, class_node.body, st)
        st2 == IF st1.status = "ok" THEN [st1 EXCEPT !.list = order] ELSE st1
        st3 == ForMembers("AssociationsOfConstructor", class_node, class_node.body, st2)
    IN  ForMembers("AssociationsOfMethod", class_node, class_node.body, st3)

\* _extract_reflexive_associations, the parameter loop
ReflexiveOfParameter(class_node, param_type, st) ==
    IF param_type = class_node.name THEN Emit(st, class_node.name) ELSE st

\* a reflexive extractor that looks at return types only
ReflexiveOfMethodNoParameters(class_node, member, st) ==
    IF member.kind # "MethodDeclaration" THEN st
    ELSE IF member.m.return_type = class_node.name
    THEN Emit(st, class_node.name) ELSE st

\* _extract_reflexive_associations, second loop body
ReflexiveOfMethod(class_node, member, st) ==
    IF member.kind # "MethodDeclaration" THEN st
    ELSE LET st1 == IF member.m.return_type = class_node.name
                    THEN Emit(st, class_node.name) ELSE st
         IN  ForStatements("ReflexiveOfParameter", class_node, member.m.parameters, st1)

\* _extract_reflexive_associations, first loop body
ReflexiveOfField(class_node, member, st) ==
    IF member.kind = "FieldDeclaration" /\ member.m.type = class_node.name
    THEN Emit(st, member.m.type) ELSE st

\* _extract_reflexive_associations
ExtractReflexiveAssociations(class_node, st) ==
    ForMembers("ReflexiveOfMethod", class_node, class_node.body,
               ForMembers("ReflexiveOfField", class_node, class_node.body, st))

\* _extract_bidirectional_associations: each of its three loops evaluates
\* `... in self.classes` at the first field, the first constructor
\* assignment of a ClassCreator, the first qualified method invocation
BidirectionalOfField(class_node, member, st) ==
    IF member.kind = "FieldDeclaration" THEN InSelfClasses(st) ELSE st

BidirectionalOfInvocation(class_node, statement, st) ==
    IF statement.kind = "MethodInvocation" THEN InSelfClasses(st) ELSE st

BidirectionalOfMethod(class_node, member, st) ==
    IF member.kind = "MethodDeclaration"
    THEN ForStatements("BidirectionalOfInvocation", class_node, member.m.body, st)
    ELSE st

\* _extract_bidirectional_associations(class_node, associations,
\* bidirectional_associations); st.list is bidirectional_associations
ExtractBidirectionalAssociations(class_node, st) ==
    LET st1 == ForMembers("BidirectionalOfField", class_node, class_node.body, st)
        st2 == ForMembers("AssociationsOfConstructor", class_node, class_node.body, st1)
    IN  ForMembers("BidirectionalOfMethod", class_node, class_node.body, st2)

\* the loop bodies by name
LoopBody(loop, class_node, item, st) ==
    CASE loop = "AggregationsStep" ->
             AggregationsStep(class_node, item, st)
      [] loop = "AssociationsOfConstructor" ->
             AssociationsOfConstructor(class_node, item, st)
      [] loop = "AssociationsOfField" ->
             AssociationsOfField(class_node, item, st)
      [] loop = "AssociationsOfMethod" ->
             AssociationsOfMethod(class_node, item, st)
      [] loop = "AssociationsOfParameter" ->
             AssociationsOfParameter(class_node, item, st)
      [] loop = "AssociationsOfStatement" ->
             AssociationsOfStatement(class_node, item, st)
      [] loop = "BidirectionalOfField" ->
             BidirectionalOfField(class_node, item, st)
      [] loop = "BidirectionalOfInvocation" ->
             BidirectionalOfInvocation(class_node, item, st)
      [] loop = "BidirectionalOfMethod" ->
             BidirectionalOfMethod(class_node, item, st)
      [] loop = "CompositionsOfConstructor" ->
             CompositionsOfConstructor(class_node, item, st)
      [] loop = "CompositionsOfMethod" ->
             CompositionsOfMethod(class_node, item, st)
      [] loop = "CompositionsStep" ->
             CompositionsStep(class_node, item, st)
      [] loop = "DependenciesOfMethod" ->
             DependenciesOfMethod(class_node, item, st)
      [] loop = "DependenciesStep" ->
             DependenciesStep(class_node, item, st)
      [] loop = "EnumsStep" ->
             EnumsStep(class_node, item, st)
      [] loop = "ReflexiveOfField" ->
             ReflexiveOfField(class_node, item, st)
      [] loop = "ReflexiveOfMethod" ->
             ReflexiveOfMethod(class_node, item, st)
      [] loop = "ReflexiveOfParameter" ->
             ReflexiveOfParameter(class_node, item, st)

\* --------------------------------------- the extractors applied to one list
\* the extractors in the order in which _extract_relationships calls them
ExtractorOrder ==
    <<"aggregations", "compositions", "dependencies", "inheritance",
      "enums", "associations", "reflexive", "bidirectional">>

Start(list) == [status |-> "ok", list |-> list, added |-> <<>>]

\* what a call has appended, tagged with the extractor that appended it
Tagged(by, added) == [i \in DOMAIN added |-> [by |-> by, value |-> added[i]]]

\* the state after extractor number k has returned `out` (or raised)
AfterExtractor(k, out) ==
    [ext EXCEPT !.status = out.status,
                !.last = ExtractorOrder[k],
                !.emitted = @ \o Tagged(ExtractorOrder[k], out.added),
                !.step = k + 1,
                !.phase = IF out.status = "ok" /\ k < Len(ExtractorOrder)
                          THEN "run" ELSE "ended"]

AtExtractor(k) == ext.phase = "run" /\ ext.step = k

ExtractorFrame ==
    UNCHANGED <<files, pc, idx, objs, elements, packages, log, exc, call, lim, cfg, dia>>

CallExtractAggregations ==
    /\ AtExtractor(1)
    /\ LET out == ExtractAggregations(ext.class_node, Start(ext.relations))
       IN  ext' = [AfterExtractor(1, out) EXCEPT !.relations = out.list]
    /\ ExtractorFrame

CallExtractCompositions ==
    /\ AtExtractor(2)
    /\ LET out == ExtractCompositions(ext.class_node, Start(ext.relations))
       IN  ext' = [AfterExtractor(2, out) EXCEPT !.relations = out.list]
    /\ ExtractorFrame

CallExtractDependencies ==
    /\ AtExtractor(3)
    /\ LET out == ExtractDependencies(ext.class_node, Start(ext.relations))
       IN  ext' = [AfterExtractor(3, out) EXCEPT !.relations = out.list]
    /\ ExtractorFrame

CallExtractInheritanceRelationships ==
    /\ AtExtractor(4)
    /\ LET out == ExtractInheritanceRelationships(ext.class_node, Start(ext.relations))
       IN  ext' = [AfterExtractor(4, out) EXCEPT !.relations = out.list]
    /\ ExtractorFrame

CallExtractEnums ==
    /\ AtExtractor(5)
    /\ LET out == ExtractEnums(ext.class_node, Start(ext.relations))
       IN  ext' = [AfterExtractor(5, out) EXCEPT !.relations = out.list]
    /\ ExtractorFrame

CallExtractAssociations ==
    /\ AtExtractor(6)
    /\ \E order \in Orderings(ext.relations) :
           LET out == ExtractAssociations(ext.class_node, Start(ext.relations), order)
           IN  ext' = [AfterExtractor(6, out) EXCEPT !.relations = out.list]
    /\ ExtractorFrame

CallExtractReflexiveAssociations ==
    /\ AtExtractor(7)
    /\ LET out == ExtractReflexiveAssociations(ext.class_node, Start(ext.relations))
       IN  ext' = [AfterExtractor(7, out) EXCEPT !.relations = out.list]
    /\ ExtractorFrame

CallExtractBidirectionalAssociations ==
    /\ AtExtractor(8)
    /\ LET out == ExtractBidirectionalAssociations(ext.class_node, Start(ext.bidirectional))
       IN  ext' = [AfterExtractor(8, out) EXCEPT !.bidirectional = out.list]
    /\ ExtractorFrame

\* a class node, an empty list, and the extractor that is called first
InitExtract ==
    /\ ParserIdle
    /\ lim = NoLimit /\ cfg = NoConfig /\ dia = NoDiagram
    /\ \E class_node \in ClassNodes, first \in DOMAIN ExtractorOrder :
           ext = [phase |-> "run", class_node |-> class_node, step |-> first,
                  status |-> "ok", last |-> "none", relations |-> <<>>,
                  bidirectional |-> <<>>, emitted |-> <<>>]

NextExtract ==
    \/ CallExtractAggregations
    \/ CallExtractCompositions
    \/ CallExtractDependencies
    \/ CallExtractInheritanceRelationships
    \/ CallExtractEnums
    \/ CallExtractAssociations
    \/ CallExtractReflexiveAssociations
    \/ CallExtractBidirectionalAssociations

SpecExtract == InitExtract /\ [][NextExtract]_vars

Next ==
    \/ DiscoverJavaElements
    \/ ExtractRelationshipsFromFile
    \/ FindCall
    \/ GenerateCall

Spec == Init /\ [][Next]_vars

\* ------------------------------------------- JavaElement.add_relation calls
\* the relations a client can build once discovery has ended: the source an
\* object of the catalog, the target an object or a type name (a str)
RelationTargets ==
    [pytype : {"JavaElement"}, oid : DOMAIN objs, name : {None}]
        \cup [pytype : {"str"}, oid : {0}, name : {<<"B", "a">>}]

Relations ==
    [source : DOMAIN objs, target : RelationTargets, relation_type : {"association"}]

\* a client calls element.add_relation(JavaRelation(source, target, type))
\* on an object of the catalog; `before` is the object's list at the call
AddRelationCall ==
    /\ pc = "extract"
    /\ call = NoCall
    /\ \E oid \in DOMAIN objs, relation \in Relations :
           call' = [op |-> "add_relation", self |-> oid, relation |-> relation,
                    before |-> objs[oid].relations,
                    status |-> AddRelation(oid, relation)]
    /\ UNCHANGED <<files, pc, idx, objs, elements, packages, log, exc, lim, cfg, dia, ext>>

NextRelation ==
    \/ DiscoverJavaElements
    \/ AddRelationCall

SpecRelation == Init /\ [][NextRelation]_vars

\* ---------------------------------------------------------------------- main
\* main (lines 969-991).  Its position is read off the objects it has built
\* so far: the ConfigLoader (cfg), the parser (pc), the generator (call).

\* line 972: project_folder = config_loader.get_project_folder()
MainGetProjectFolder ==
    /\ pc = "idle"
    /\ GetProjectFolder

\* line 973: output_uml = config_loader.get_output_uml_code()
MainGetOutputUmlCode ==
    /\ pc = "idle"
    /\ cfg.got["java_project_folder"].status = "ok"
    /\ GetOutputUmlCode

\* line 974: output_diagram = config_loader.get_output_uml_diagram()
MainGetOutputUmlDiagram ==
    /\ pc = "idle"
    /\ cfg.got["output_uml_code"].status = "ok"
    /\ GetOutputUmlDiagram

\* lines 976-977: parser = JavaProjectParser(project_folder); parser.parse()
\* starts its first loop, or ends at once in a folder without .java file
MainParse ==
    /\ pc = "idle"
    /\ cfg.phase = "loaded"
    /\ cfg.got["output_uml_diagram"].status = "ok"
    /\ pc' = IF files = <<>> THEN "parsed" ELSE "discover"
    /\ UNCHANGED <<files, idx, objs, elements, packages, log, exc, call, lim, cfg, dia, ext>>

\* line 979: generator = PlantUMLGenerator(parser.packages).  The catalog is
\* the class attribute JavaPackage.packages; a JavaProjectParser has no
\* attribute `packages`, so the argument raises AttributeError and main ends
\* here: lines 980-991 (generate, the write of the text, generate_diagram)
\* are not reached
MainGenerator ==
    /\ pc = "parsed"
    /\ call = NoCall
    /\ "packages" \notin ParserAttributes
    /\ call' = [op |-> "PlantUMLGenerator", status |-> "AttributeError", text |-> None]
    /\ UNCHANGED <<files, pc, idx, objs, elements, packages, log, exc, lim, cfg, dia, ext>>

\* main has ended: it has returned or an exception has left it
MainEnded ==
    \/ \E key \in ConfigKeys : cfg.got[key].status = "AttributeError"
    \/ pc = "crashed"
    \/ call.op = "PlantUMLGenerator" /\ call.status # "ok"
    \/ dia.phase = "ended"

\* the process starts with config.json as it is on disk and the .java files
\* of the project folder
InitMain ==
    /\ cfg \in [phase : {"file"}, file : ConfigFiles, config : {EmptyDict},
                printed : {FALSE}, got : {[k \in ConfigKeys |-> Uncalled]}]
    /\ files \in UNION {[1..n -> SourceFiles] : n \in 0..MaxFiles}
    /\ pc = "idle"
    /\ idx = 1
    /\ objs = <<>>
    /\ elements = <<>>
    /\ packages = <<>>
    /\ log = <<>>
    /\ exc = "none"
    /\ call = NoCall
    /\ lim = NoLimit
    /\ dia = NoDiagram
    /\ ext = NoExtract

NextMain ==
    \/ ConfigLoaderInit
    \/ MainGetProjectFolder
    \/ MainGetOutputUmlCode
    \/ MainGetOutputUmlDiagram
    \/ MainParse
    \/ DiscoverJavaElements
    \/ ExtractRelationshipsFromFile
    \/ MainGenerator

SpecMain == InitMain /\ [][NextMain]_vars

\* ------------------------------------- two classes that refer to each other
\* a plain field of the given type
FieldOf(type) == [kind |-> "FieldDeclaration", m |-> [NoMember EXCEPT !.type = type]]

\* class bodies that refer to `partner` by a field: the field alone, the
\* field created in place, twice the field, the field set in a constructor
BodiesWithFieldOf(partner) ==
    { <<FieldOf(partner)>>,
      <<[kind |-> "FieldDeclaration",
         m |-> [NoMember EXCEPT !.type = partner, !.initializer = partner]]>>,
      <<FieldOf(partner), FieldOf(partner)>>,
      <<FieldOf(partner),
        [kind |-> "ConstructorDeclaration",
         m |-> [NoMember EXCEPT !.body = <<[kind |-> "Assignment", type |-> partner]>>]]>> }

\* a file that declares class `name` with a field of type `partner`
FilesOfClass(name, partner) ==
    [status : {"ok"}, package : PackageNames \cup {None},
     decl : [kind : {"class"}, name : {name}, extends : {None},
             body : BodiesWithFieldOf(partner)]]

\* the file of class a and the file of class b, in either walk order
PairFiles ==
    UNION {{<<fa, fb>> : fa \in FilesOfClass(ab[1], ab[2]), fb \in FilesOfClass(ab[2], ab[1])} :
           ab \in {ab \in TypeNames \X TypeNames : ab[1] # ab[2]}}

InitPair ==
    /\ files \in PairFiles
    /\ pc = "discover"
    /\ idx = 1
    /\ objs = <<>>
    /\ elements = <<>>
    /\ packages = <<>>
    /\ log = <<>>
    /\ exc = "none"
    /\ call = NoCall
    /\ lim = NoLimit
    /\ cfg = NoConfig
    /\ dia = NoDiagram
    /\ ext = NoExtract

NextPair ==
    \/ DiscoverJavaElements
    \/ ExtractRelationshipsFromFile

SpecPair == InitPair /\ [][NextPair]_vars

\* ================================================================== claims
Range(seq) == {seq[i] : i \in DOMAIN seq}
Count(seq, x) == Cardinality({i \in DOMAIN seq : seq[i] = x})

\* the objects held by the package lists, per kind
Listed(kind) ==
    UNION {Range(CASE kind = "class" -> packages[i].classes
                   [] kind = "interface" -> packages[i].interfaces
                   [] kind = "enum" -> packages[i].enums) : i \in DOMAIN packages}

\* the declaration of file i is in the catalog: registered under its fqn and
\* listed in its package under its kind
InCatalog(i) ==
    LET fqn == Fqn(ExtractPackage(files[i]), files[i].decl.name)
    IN  /\ fqn \in DOMAIN elements
        /\ \E oid \in Listed(files[i].decl.kind) : objs[oid].fqn = fqn

\* every file that parsed in the discovery pass has its declaration in the catalog
CatalogComplete == \A i \in DOMAIN files : files[i].status = "ok" => InCatalog(i)

\* C1: once the discovery pass has completed, find(D.name, D.package) returns
\* D for every declaration object D the pass created.
C1_FindReturnsDiscovered ==
    pc # "discover" =>
        \A oid \in DOMAIN objs : Find(elements, objs[oid].name, objs[oid].package) = oid

\* the registered declarations that carry a bare name
Carrying(name) == {fqn \in DOMAIN elements : objs[elements[fqn]].name = name}

\* C2: find(name) without a package returns the declaration registered under
\* that bare name when exactly one registered declaration carries it, and
\* None when none or several do.
C2_FindBareName ==
    (call.op = "find" /\ ~Truthy(call.package)) =>
        IF Cardinality(Carrying(call.name)) = 1
        THEN \E fqn \in Carrying(call.name) : call.result = elements[fqn]
        ELSE call.result = 0

\* C2 witness: find without a package answered None for a name that two
\* registered declarations, in different packages, carry
C2_Witness ==
    /\ call.op = "find" /\ call.package = None /\ call.result = 0
    /\ Cardinality(Carrying(call.name)) = 2

\* C3: limit_relationships returns a list that holds at most
\* max_relations_per_mate facts toward any one partner, all kinds together.
C3_AtMostNPerPartner ==
    ( /\ lim.phase = "ended"
      /\ lim.max_relations_per_mate >= 1
      /\ \A i \in DOMAIN lim.relationships :
             lim.relationships[i].target.pytype = "JavaElement" )
    =>  /\ lim.status = "ok"
        /\ \A t \in LimitTargets :
               Cardinality({i \in DOMAIN lim.result : lim.result[i].target = t})
                   <= lim.max_relations_per_mate

\* C4: with a composition fact and an association fact toward the same
\* partner in the input, in either order, and a maximum of 1, the result
\* holds the composition fact and not the association fact.
C4_CompositionBeatsAssociation ==
    \A t \in LimitTargets :
        LET composition == [relation_type |-> "composition", target |-> t]
            association == [relation_type |-> "association", target |-> t]
        IN  ( /\ lim.phase = "ended"
              /\ lim.max_relations_per_mate = DefaultMaxRelationsPerMate
              /\ t.pytype = "JavaElement"
              /\ {composition, association} \subseteq Range(lim.relationships) )
            => ( /\ lim.status = "ok"
                 /\ composition \in Range(lim.result)
                 /\ association \notin Range(lim.result) )

\* C5: every extends fact and every implements fact of the input of
\* limit_relationships is in its result.
C5_InheritanceNeverLimited ==
    ( /\ lim.phase = "ended"
      /\ lim.max_relations_per_mate = DefaultMaxRelationsPerMate
      /\ \A i \in DOMAIN lim.relationships :
             lim.relationships[i].target.pytype = "JavaElement" )
    =>  \A i \in DOMAIN lim.relationships :
            lim.relationships[i].relation_type \in {"extends", "implements"} =>
                /\ lim.status = "ok"
                /\ lim.relationships[i] \in Range(lim.result)

\* C6: the text generate returns holds each relationship line that is due
\* exactly once; here the inheritance line of every class with a superclass.
C6_RelationLineOnce ==
    call.op = "generate" =>
        \A oid \in Listed("class") :
            objs[oid].extends # None =>
                /\ call.status = "ok"
                /\ Count(call.text, ExtendsLine(objs[oid].extends, objs[oid].name)) = 1

\* the header line of the block of a declaration object
BlockLine(obj) ==
    CASE obj.kind = "class" -> ClassLine(obj.name)
      [] obj.kind = "interface" -> InterfaceLine(obj.name)
      [] obj.kind = "enum" -> EnumLine(obj.name)

\* position of the innermost package line before line k of a text
PackageLineBefore(text, k) ==
    CHOOSE j \in 1..k :
        /\ \E i \in DOMAIN packages : text[j] = PackageLine(packages[i].package_name)
        /\ \A m \in (j + 1)..k :
               \A i \in DOMAIN packages : text[m] # PackageLine(packages[i].package_name)

\* C8: in a text generate returns, every registered declaration has exactly
\* one block inside the block of its package.
C8_EachDeclarationOneBlock ==
    (call.op = "generate" /\ call.status = "ok") =>
        \A fqn \in DOMAIN elements :
            LET obj == objs[elements[fqn]]
            IN  Cardinality({k \in DOMAIN call.text :
                    /\ call.text[k] = BlockLine(obj)
                    /\ call.text[PackageLineBefore(call.text, k)] = PackageLine(obj.package)})
                  = 1

\* C9: while parse is in its extraction pass, the catalog holds the
\* declaration of every file that parsed in the discovery pass.
C9_DiscoveryBeforeExtraction ==
    pc = "extract" => CatalogComplete

\* C9 witness: the extraction of the first class is about to run and the
\* declaration of a later file is already in the catalog
C9_Witness ==
    /\ pc = "extract" /\ idx = 1
    /\ files[1].status = "ok" /\ files[1].decl.kind = "class"
    /\ Len(files) >= 2 /\ files[2].status = "ok" /\ InCatalog(2)

\* the failure of a pass on file i has been logged
Logged(pass, i) == \E k \in DOMAIN log : log[k].pass = pass /\ log[k].file = i

C11_ConfigDefaults ==
    cfg.phase = "loaded" =>
        /\ cfg.file.state \in {"missing", "malformed"} => cfg.config = EmptyDict
        /\ \A key \in ConfigKeys :
               cfg.got[key] # Uncalled =>
                   /\ cfg.got[key].status = "ok"
                   /\ cfg.got[key].value =
                          IF key \in DOMAIN cfg.config.items
                          THEN cfg.config.items[key]
                          ELSE DefaultOf(key)

\* C12: generate_diagram lets no error of the rendering service, of makedirs
\* or of writing the image escape: it ends without an exception, reports the
\* error, and the diagram text written before it is still in its file.
C12_RenderFailureCaught ==
    dia.phase = "ended" =>
        /\ dia.raised = "none"
        /\ DiagramError(dia) # "ok" => dia.printed = "error"
        /\ dia.disk[TextPath] = dia.plantuml_code

\* C12 witness: the rendering service raised, generate_diagram ended without
\* an exception and reported it, the diagram text is unchanged
C12_Witness ==
    /\ dia.phase = "ended"
    /\ dia.env.processes = "PlantUMLHTTPError"
    /\ dia.raised = "none" /\ dia.printed = "error"
    /\ dia.disk[TextPath] = dia.plantuml_code

Min(a, b) == IF a <= b THEN a ELSE b

\* C16: limit_relationships leaves a fact out only when its partner has
\* reached the maximum: a partner with k facts in the input has min(k, N)
\* facts in the result.
C16_MinOfInputAndMax ==
    ( /\ lim.phase = "ended"
      /\ lim.max_relations_per_mate >= 1
      /\ \A i \in DOMAIN lim.relationships :
             lim.relationships[i].target.pytype = "JavaElement" )
    =>  /\ lim.status = "ok"
        /\ \A t \in LimitTargets :
               Cardinality({i \in DOMAIN lim.result : lim.result[i].target = t})
                   = Min(Cardinality({i \in DOMAIN lim.relationships :
                                         lim.relationships[i].target = t}),
                         lim.max_relations_per_mate)

\* C17: once parse has ended, the relation list of every class that declares
\* a superclass holds an extends fact.
C17_ExtendsRecorded ==
    pc \in {"parsed", "crashed"} =>
        \A oid \in Listed("class") :
            objs[oid].extends # None =>
                \E k \in DOMAIN objs[oid].relations :
                    objs[oid].relations[k].relation_type = "extends"

\* what an extractor has appended during its call, in order
EmittedBy(by) ==
    LET own == SelectSeq(ext.emitted, LAMBDA e : e.by = by)
    IN  [i \in DOMAIN own |-> own[i].value]

\* the places of a class body whose declared type name is the class's own
\* name: <<i, 0>> a field or a method return type, <<i, j>> parameter j
OwnTypePlaces(class_node) ==
    LET body == class_node.body
    IN  {<<i, 0>> : i \in {i \in DOMAIN body :
                \/ body[i].kind = "FieldDeclaration" /\ body[i].m.type = class_node.name
                \/ body[i].kind = "MethodDeclaration"
                     /\ body[i].m.return_type = class_node.name}}
        \cup UNION {{<<i, j>> : j \in {j \in DOMAIN body[i].m.parameters :
                                          body[i].m.parameters[j] = class_node.name}} :
                    i \in {i \in DOMAIN body : body[i].kind = "MethodDeclaration"}}

\* C15: when _extract_reflexive_associations has returned for a class C, it
\* has appended one entry for each field, method return type and method
\* parameter whose declared type name is C's name, every one of these
\* entries is C's own name (the target of a fact of C is C), they are the
\* last entries of the list, and a class with no such member got no entry.
C15_ReflexiveFacts ==
    ext.last = "reflexive" =>
        LET n == Cardinality(OwnTypePlaces(ext.class_node))
            own == EmittedBy("reflexive")
            relations == ext.relations
        IN  /\ ext.status = "ok"
            /\ Len(own) = n
            /\ Len(relations) >= n
            /\ \A i \in 1..n :
                   /\ own[i] = ext.class_node.name
                   /\ relations[Len(relations) - n + i] = ext.class_node.name

\* C15 witness: a class with a field of its own type and a method with a
\* parameter of its own type got two reflexive entries.
C15_Witness ==
    /\ ext.last = "reflexive"
    /\ \E i, j \in DOMAIN ext.class_node.body :
           /\ ext.class_node.body[i].kind = "FieldDeclaration"
           /\ ext.class_node.body[i].m.type = ext.class_node.name
           /\ ext.class_node.body[j].kind = "MethodDeclaration"
           /\ ext.class_node.body[j].m.parameters = <<ext.class_node.name>>
    /\ ext.relations = <<ext.class_node.name, ext.class_node.name>>

\* the types named in the object-creation expressions of a statement list
RECURSIVE CreatedInBody(_)
CreatedInBody(statements) ==
    IF statements = <<>> THEN <<>>
    ELSE (IF Head(statements).kind \in {"Assignment", "ClassCreator"}
          THEN <<Head(statements).type>> ELSE <<>>) \o CreatedInBody(Tail(statements))

\* the types X of the `new X(...)` of field initializers, constructor
\* assignments and method-body statements, in the order of the members
RECURSIVE CreatedTypes(_)
CreatedTypes(members) ==
    IF members = <<>> THEN <<>>
    ELSE LET member == Head(members)
         IN  (CASE member.kind = "FieldDeclaration" ->
                       IF member.m.initializer # None THEN <<member.m.initializer>> ELSE <<>>
                [] member.kind \in {"ConstructorDeclaration", "MethodDeclaration"} ->
                       CreatedInBody(member.m.body)
                [] OTHER -> <<>>) \o CreatedTypes(Tail(members))

\* C19: when _extract_compositions has returned for a class, what it has
\* appended are the types X named in the object-creation expressions of the
\* class's field initializers, constructor assignments and method bodies,
\* also for a field whose declared type is not X.
C19_CompositionTargetIsCreatedType ==
    ext.last = "compositions" =>
        /\ ext.status = "ok"
        /\ EmittedBy("compositions") = CreatedTypes(ext.class_node.body)

\* C18: when _extract_associations has been called for a class, it has
\* returned and no entry it has appended is the class's own name, whatever
\* member the entry comes from.
C18_AssociationExcludesSelf ==
    ext.last = "associations" =>
        /\ ext.status = "ok"
        /\ \A i \in DOMAIN EmittedBy("associations") :
               EmittedBy("associations")[i] # ext.class_node.name

\* C13: when _extract_bidirectional_associations has been called for a class
\* A, it has returned and its list holds at most one entry for each pair
\* (A, B), however many members of A refer to B.
C13_AtMostOneBidirectionalFact ==
    ext.last = "bidirectional" =>
        /\ ext.status = "ok"
        /\ \A partner \in TypeNames :
               Cardinality({i \in DOMAIN ext.bidirectional :
                   ext.bidirectional[i] = <<ext.class_node.name, partner>>}) <= 1

\* C20: as long as no extractor has raised, the list is exactly what the
\* extractors have appended so far: every entry as many times and in the
\* order in which it was appended.
C20_NothingDeduplicated ==
    ext.status = "ok" =>
        ext.relations = [i \in DOMAIN ext.emitted |-> ext.emitted[i].value]

\* the facts of a relation type attached to the objects of the catalog
FactsOfType(relation_type) ==
    UNION {{<<oid, k>> : k \in {k \in DOMAIN objs[oid].relations :
                                   objs[oid].relations[k].relation_type = relation_type}} :
           oid \in DOMAIN objs}

\* C14: when parse has ended on the files of two classes that each have a
\* field of the other's type, whichever file came first, parse has returned
\* and the facts of the two classes hold exactly one bidirectional fact and
\* no association fact.
C14_OneBidirectionalFactForPair ==
    pc \in {"parsed", "crashed"} =>
        /\ pc = "parsed"
        /\ Cardinality(FactsOfType("bidirectional")) = 1
        /\ FactsOfType("association") = {}

\* C21: every relation in the relation list of an object of the catalog has
\* that object as source and an object of the catalog as target, and a call
\* of add_relation with a relation whose target is a type name returns and
\* leaves the object's list as it was.
C21_RelationsValid ==
    /\ \A oid \in DOMAIN objs : \A k \in DOMAIN objs[oid].relations :
           /\ objs[oid].relations[k].source = oid
           /\ objs[oid].relations[k].target.pytype = "JavaElement"
           /\ objs[oid].relations[k].target.oid \in DOMAIN objs
    /\ (call.op = "add_relation" /\ call.relation.target.pytype = "str") =>
           /\ call.status = "ok"
           /\ objs[call.self].relations = call.before

\* C21 witness: add_relation was called with a relation from the object to a
\* type name, and the object's list is as before.
C21_Witness ==
    /\ call.op = "add_relation"
    /\ call.relation.source = call.self
    /\ call.relation.target.name = <<"B", "a">>
    /\ call.status = "ok"
    /\ objs[call.self].relations = call.before

\* the objects a package lists under a name, in any of its three lists
ListedAs(pk, name) ==
    {oid \in Range(pk.classes) \cup Range(pk.interfaces) \cup Range(pk.enums) :
        objs[oid].name = name}

\* C22: once discovery has ended, for every name a package lists, the
\* package lists one object under it, find(name, package) returns that
\* object, and it is the class object extraction picks for the name.
C22_DuplicateResolvedConsistently ==
    pc # "discover" =>
        \A pi \in DOMAIN packages : \A name \in ElementNames :
            LET pk == packages[pi]
                found == Find(elements, name, pk.package_name)
            IN  ListedAs(pk, name) # {} =>
                    /\ ListedAs(pk, name) = {found}
                    /\ FirstByName(pk.classes, name) \in {0, found}

\* C23: generate returns a text that holds, for the inheritance fact of
\* every class with a superclass, a line whose symbol is the one
\* get_uml_symbol gives for the kind "extends".
C23_LineUsesFixedSymbol ==
    call.op = "generate" =>
        \A oid \in Listed("class") :
            objs[oid].extends # None =>
                /\ call.status = "ok"
                /\ \E k \in DOMAIN call.text :
                       call.text[k] = objs[oid].extends \o <<" ">> \o GetUmlSymbol("extends")
                                          \o <<" ">> \o objs[oid].name

\* C24: main goes through its stages in the order configuration, parse,
\* rendering of the text, write of the text, call of the rendering service:
\* parse starts after the three getters have returned, the generator is
\* built after parse has returned, the rendering service is called with the
\* text already written to its file, and main ends only after that call.
C24_StagesInOrder ==
    /\ pc # "idle" => \A key \in ConfigKeys : cfg.got[key].status = "ok"
    /\ call # NoCall => pc = "parsed"
    /\ dia # NoDiagram =>
           call # NoCall /\ call.status = "ok" /\ dia.disk[TextPath] = dia.plantuml_code
    /\ MainEnded => call # NoCall /\ call.status = "ok" /\ dia.phase = "ended"

\* how often a fact occurs in a list of facts
Occurrences(facts, fact) == Cardinality({i \in DOMAIN facts : facts[i] = fact})

\* C25: a call of limit_relationships with a maximum of at least 1 on facts
\* whose targets are declaration objects returns a list in which no fact
\* occurs more often than in the input (so every fact of it is an input
\* fact), and no step changes the input list.
C25_ResultIsSubListOfInput ==
    /\ []( ( /\ lim.phase = "ended"
             /\ lim.max_relations_per_mate >= 1
             /\ \A i \in DOMAIN lim.relationships :
                    lim.relationships[i].target.pytype = "JavaElement" )
           =>  /\ lim.status = "ok"
               /\ \A fact \in LimitFacts :
                      Occurrences(lim.result, fact) <= Occurrences(lim.relationships, fact) )
    /\ [][lim'.relationships = lim.relationships]_vars

\* the files whose open or parse fails in a pass: absent, not Java, or not
\* yet there during discovery
FailsToParse(file, pass) ==
    \/ file.status \in {"missing", "malformed"}
    \/ file.status = "late" /\ pass = "discover"

\* C26: the step of either pass on a file whose parsing fails changes no
\* object (so no relation list), no entry of JavaElement.elements and no
\* package or package list.
C26_FailedFileLeavesCatalog ==
    [][ (pc \in {"discover", "extract"} /\ FailsToParse(files[idx], pc))
            => (objs' = objs /\ elements' = elements /\ packages' = packages) ]_vars

\* C26 witness: discovery has taken the declaration of the first file, has
\* failed on the second, and the catalog holds the first declaration alone.
C26_Witness ==
    /\ pc = "extract"
    /\ Len(files) = 2
    /\ FailsToParse(files[2], "discover")
    /\ \E k \in DOMAIN log : log[k].pass = "discover" /\ log[k].file = 2
    /\ Len(objs) = 1
    /\ DOMAIN elements = {objs[1].fqn}
    /\ Len(packages) = 1
====
